---- MODULE Spec2Model ----
(***************************************************************************)
(* The AI Life Assistant plugin (src/main.ts) as a state machine.          *)
(*                                                                         *)
(* The host runs every handler on one event loop: a handler runs without   *)
(* interruption up to its next await on real I/O (a vault read, the HTTP   *)
(* exchange, the settings save, the Markdown renderer), and the            *)
(* continuations of pending awaits run in any order, interleaved with new  *)
(* user events.  One action of the model is one such uninterrupted         *)
(* stretch.  An await on a promise that is already settled (the key check  *)
(* of callOpenAI, a load of a folder without documents) only defers to the *)
(* microtask queue, which drains before the next event is delivered, so it *)
(* does not end the stretch.                                               *)
(*                                                                         *)
(* A text is a sequence of pieces; a piece stands for a fixed run of       *)
(* characters of known length.  Concatenation is \o, the empty text <<>>.  *)
(***************************************************************************)
EXTENDS Integers, Sequences, FiniteSets, Bags, TLC

(***************************************************************************)
(* Program constants.                                                      *)
(***************************************************************************)
MAX_CONTEXT_TOKENS == 15000

\* CHARS_PER_TOKEN = 3.5 = CharsPerTokenNum / CharsPerTokenDen
CharsPerTokenNum == 7

CharsPerTokenDen == 2

(***************************************************************************)
(* Bounds of the model.                                                    *)
(***************************************************************************)
\* user and host events delivered in one behaviour of Spec
MaxEvents == 3

\* user events delivered in one behaviour of SpecLoad
MaxLoadEvents == 3

\* handlers that may be suspended on an await at the same time
MaxTasks == 2

(***************************************************************************)
(* Texts.                                                                  *)
(***************************************************************************)
\* characters (UTF-16 code units) a piece stands for
PieceLen(p) ==
  CASE p = "ws"  -> 1       \* one whitespace character
    [] p = "q"   -> 3       \* a short question
    [] p = "r"   -> 5       \* a reply text
    [] p = "s"   -> 7       \* a short note: 2 tokens
    [] p = "SEP" -> 7       \* "\n\n---\n\n"
    [] p = "SUM" -> 36      \* "Please summarize the following text:"
    [] p = "m"   -> 52486   \* 14996 tokens
    [] p = "n"   -> 52490   \* with the separator 52497 characters
    [] p = "t"   -> 52499   \* 15000 tokens, one character short of 52500
    [] p = "B"   -> 52500   \* exactly 15000 tokens
    [] OTHER     -> 1

IsWhitespace(p) == p = "ws"

RECURSIVE StrLen(_)
StrLen(s) == IF s = <<>> THEN 0 ELSE PieceLen(Head(s)) + StrLen(Tail(s))

RECURSIVE TrimStart(_)
TrimStart(s) ==
  IF s # <<>> /\ IsWhitespace(Head(s)) THEN TrimStart(Tail(s)) ELSE s

RECURSIVE TrimEnd(_)
TrimEnd(s) ==
  IF s # <<>> /\ IsWhitespace(s[Len(s)])
  THEN TrimEnd(SubSeq(s, 1, Len(s) - 1))
  ELSE s

\* String.prototype.trim
Trim(s) == TrimEnd(TrimStart(s))

\* Math.ceil(text.length / CHARS_PER_TOKEN)
estimateTokensOffByFloor(text) ==
  (StrLen(text) * CharsPerTokenDen) \div CharsPerTokenNum

estimateTokens(text) ==
  (StrLen(text) * CharsPerTokenDen + CharsPerTokenNum - 1) \div CharsPerTokenNum

Separator == <<"SEP">>

NewLines == <<"ws", "ws">>

(***************************************************************************)
(* The vault: the files the host knows, in the order getMarkdownFiles and  *)
(* getAllLoadedFiles return them (not sorted).  A file is a record of its  *)
(* path, name, parent folder path, extension and content; a read returns   *)
(* the content.                                                            *)
(***************************************************************************)
File(path, name, parent, ext, content) ==
  [path |-> path, name |-> name, parent |-> parent, extension |-> ext,
   content |-> content]

NoFile == File("", "", "", "", <<>>)

\* the vault of Spec: folder A with two notes, its subfolder with one, and a
\* file at the root that is not Markdown
VaultMain ==
  << File("A/a2.md", "a2.md", "A", "md", <<"s">>),
     File("A/sub/s1.md", "s1.md", "A/sub", "md", <<"q">>),
     File("A/a1.md", "a1.md", "A", "md", <<"m">>),
     File("n.txt", "n.txt", "/", "txt", <<"s">>) >>

\* contents a note of folder A may have in SpecLoad
DocContents == { <<>>, <<"s">>, <<"m">>, <<"n">>, <<"B">> }

\* the vaults of SpecLoad: folder A with three notes of any of these
\* contents, listed out of name order, and one note in its subfolder
LoadVaults ==
  { << File("A/a3.md", "a3.md", "A", "md", c3),
       File("A/sub/s1.md", "s1.md", "A/sub", "md", <<"s">>),
       File("A/a1.md", "a1.md", "A", "md", c1),
       File("A/a2.md", "a2.md", "A", "md", c2) >> :
     c1 \in DocContents, c2 \in DocContents, c3 \in DocContents }

\* position of a file name in the order of String.prototype.localeCompare
NameRank(name) ==
  CASE name = "a1.md" -> 1
    [] name = "a2.md" -> 2
    [] name = "a3.md" -> 3
    [] name = "n.txt" -> 4
    [] name = "s1.md" -> 5
    [] OTHER -> 6

\* a.name.localeCompare(b.name) <= 0
NameLeq(a, b) == NameRank(a.name) <= NameRank(b.name)

RECURSIVE InsertByName(_, _)
InsertByName(f, sorted) ==
  IF sorted = <<>> THEN <<f>>
  ELSE IF NameLeq(Head(sorted), f)
       THEN <<Head(sorted)>> \o InsertByName(f, Tail(sorted))
       ELSE <<f>> \o sorted

RECURSIVE SortByName(_)
SortByName(files) ==
  IF files = <<>> THEN <<>>
  ELSE InsertByName(files[Len(files)],
                    SortByName(SubSeq(files, 1, Len(files) - 1)))

IsMd(f) == f.extension = "md"

\* vault.getMarkdownFiles()
getMarkdownFiles(v) == SelectSeq(v, IsMd)

\* vault.getAbstractFileByPath(path), NoFile for null
getAbstractFileByPath(v, path) ==
  IF \E i \in 1..Len(v) : v[i].path = path
  THEN v[CHOOSE i \in 1..Len(v) : v[i].path = path]
  ELSE NoFile

\* vault.cachedRead(file)
cachedRead(v, path) == getAbstractFileByPath(v, path).content

\* the folders the folder dropdown offers: every folder of the vault, the
\* root included
FolderOptions(v) == {"/"} \cup { v[i].parent : i \in 1..Len(v) }

\* the filter of loadContextFromFolder taking files of subfolders too
FilesInFolderWithSubfolders(v, folderPath) ==
  SelectSeq(getMarkdownFiles(v),
            LAMBDA f : f.parent = folderPath \/ f.parent = "A/sub")

\* the Markdown files directly in the folder
FilesInFolder(v, folderPath) ==
  SelectSeq(getMarkdownFiles(v), LAMBDA f : f.parent = folderPath)

\* the files loadContextFromFolder iterates over, in its order
FilesToLoad(v, folderPath) == SortByName(FilesInFolder(v, folderPath))

\* the options of the prompt file dropdown: the Markdown files directly in the
\* configured prompt folder, or all of them when none is configured
PromptFileOptions(v, promptFolderPath) ==
  IF promptFolderPath # "" /\ promptFolderPath \in FolderOptions(v)
  THEN { f.path : f \in { v[i] : i \in { j \in 1..Len(v) :
                               IsMd(v[j]) /\ v[j].parent = promptFolderPath } } }
  ELSE { v[i].path : i \in { j \in 1..Len(v) : IsMd(v[j]) } }

(***************************************************************************)
(* State.                                                                  *)
(***************************************************************************)
VARIABLES
  vault,      \* the files of the vault
  activeFile, \* path of workspace.getActiveFile(), "" for none
  editor,     \* the Markdown editor: text before, inside and after the selection
  settings,   \* AiLifeAssistantPlugin.settings
  view,       \* the fields and DOM elements of AiAssistantView
  tasks,      \* bag of the handlers suspended on an await
  net,        \* bag of the chat-completion requests in flight
  ev,         \* what the last step was and what it emitted
  budget      \* events still to deliver

vars == <<vault, activeFile, editor, settings, view, tasks, net, ev, budget>>

(***************************************************************************)
(* Requests, responses and callChatGPT.                                    *)
(***************************************************************************)
PanelSystemPrompt ==
  "You are a helpful AI assistant. Please format your response in Markdown."

SummarySystemPrompt ==
  "You are a helpful assistant that summarizes text concisely."

KeyNotSet == "OpenAI API Key not set."

Request(origin, apiKey, model, systemPrompt, fullPrompt) ==
  [origin |-> origin, url |-> "https://api.openai.com/v1/chat/completions",
   bearer |-> apiKey, model |-> model,
   messages |-> << [role |-> "system", text |-> systemPrompt, content |-> <<>>],
                   [role |-> "user", text |-> "", content |-> fullPrompt] >>]

NoRequest == Request("", "", "", "", <<>>)

\* fullPrompt built without the context
fullPromptWithoutContext(context, userPrompt) == userPrompt

\* const fullPrompt = context ? `${context}\n\n${userPrompt}` : userPrompt
fullPrompt(context, userPrompt) ==
  IF context # <<>> THEN context \o NewLines \o userPrompt ELSE userPrompt

\* a choice of a response body: message present or not, its content
Choice(hasMessage, content) ==
  [hasMessage |-> hasMessage, hasContent |-> TRUE, content |-> content]

\* a choice whose message has no content
ChoiceWithoutContent == [hasMessage |-> TRUE, hasContent |-> FALSE, content |-> <<>>]

\* what the endpoint may answer: the fetch rejects, or a status and a body,
\* which response.json() parses or not
Responses ==
  { [kind |-> "network", ok |-> FALSE, json |-> FALSE, choices |-> <<>>],
    [kind |-> "http", ok |-> FALSE, json |-> TRUE, choices |-> <<>>],
    [kind |-> "http", ok |-> FALSE, json |-> FALSE, choices |-> <<>>],
    [kind |-> "body", ok |-> TRUE, json |-> FALSE, choices |-> <<>>],
    [kind |-> "body", ok |-> TRUE, json |-> TRUE, choices |-> <<>>],
    [kind |-> "body", ok |-> TRUE, json |-> TRUE, choices |-> << Choice(FALSE, <<>>) >>],
    [kind |-> "body", ok |-> TRUE, json |-> TRUE, choices |-> << ChoiceWithoutContent >>],
    [kind |-> "body", ok |-> TRUE, json |-> TRUE, choices |-> << Choice(TRUE, <<"ws", "r", "ws">>) >>],
    [kind |-> "body", ok |-> TRUE, json |-> TRUE,
     choices |-> << Choice(TRUE, <<"ws", "r", "ws">>), Choice(TRUE, <<"s">>) >>] }

\* no response, for the steps that are not the end of an exchange
NoResponse == [kind |-> "", ok |-> FALSE, json |-> FALSE, choices |-> <<>>]

Threw(message) == [threw |-> TRUE, value |-> <<>>, message |-> message]

Returned(value) == [threw |-> FALSE, value |-> value, message |-> ""]

\* callChatGPT returning the last choice
callChatGPTLastChoice(resp) ==
  IF resp.kind = "network" THEN Threw("Failed to fetch")
  ELSE IF ~resp.json THEN Threw("Unexpected token in JSON")
  ELSE IF ~resp.ok THEN Threw("OpenAI API Error")
  ELSE IF Len(resp.choices) > 0 /\ resp.choices[Len(resp.choices)].hasMessage
       THEN IF resp.choices[Len(resp.choices)].hasContent
            THEN Returned(Trim(resp.choices[Len(resp.choices)].content))
            ELSE Threw("Cannot read properties of undefined (reading 'trim')")
       ELSE Threw("Unexpected API response structure from OpenAI.")

\* callChatGPT returning a non-OK response's body as the reply
callChatGPTIgnoringStatus(resp) ==
  IF resp.kind = "network" THEN Threw("Failed to fetch")
  ELSE IF ~resp.json THEN Threw("Unexpected token in JSON")
  ELSE IF Len(resp.choices) > 0 /\ resp.choices[1].hasMessage
       THEN IF resp.choices[1].hasContent
            THEN Returned(Trim(resp.choices[1].content))
            ELSE Threw("Cannot read properties of undefined (reading 'trim')")
       ELSE IF resp.ok
            THEN Threw("Unexpected API response structure from OpenAI.")
            ELSE Returned(<<>>)

\* how callChatGPT ends on a response: the string it returns or the error it
\* throws
callChatGPT(resp) ==
  IF resp.kind = "network" THEN Threw("Failed to fetch")
  ELSE IF ~resp.json THEN Threw("Unexpected token in JSON")
  ELSE IF ~resp.ok THEN Threw("OpenAI API Error")
  ELSE IF Len(resp.choices) > 0 /\ resp.choices[1].hasMessage
       THEN IF resp.choices[1].hasContent
            THEN Returned(Trim(resp.choices[1].content))
            ELSE Threw("Cannot read properties of undefined (reading 'trim')")
       ELSE Threw("Unexpected API response structure from OpenAI.")

(***************************************************************************)
(* The view's helpers, as functions of the view record v.                  *)
(***************************************************************************)
\* setUIEnabled leaving the folder select as it is
setUIEnabledButFolder(v, enabled) ==
  [v EXCEPT !.disabled = [prompt |-> ~enabled, submit |-> ~enabled,
                          folder |-> v.disabled.folder, promptFile |-> ~enabled]]

setUIEnabled(v, enabled) ==
  [v EXCEPT !.disabled = [prompt |-> ~enabled, submit |-> ~enabled,
                          folder |-> ~enabled, promptFile |-> ~enabled]]

updateTokenWarning(v) ==
  LET promptTokens == estimateTokens(v.promptValue)
      contextTokens == estimateTokens(v.currentContextContent)
      totalUserTokens == promptTokens + contextTokens
  IN [v EXCEPT !.tokenWarning =
        [kind |-> "summary", context |-> contextTokens, prompt |-> promptTokens,
         total |-> totalUserTokens,
         display |-> IF totalUserTokens > 0 THEN "block" ELSE "none",
         color |-> IF totalUserTokens > MAX_CONTEXT_TOKENS
                   THEN "error" ELSE "muted"]]

FilesList(kind, arg, names) == [kind |-> kind, arg |-> arg, names |-> names]

updateConcatenatedFilesList(v, fileNames, vlt, active) ==
  [v EXCEPT !.filesList =
     IF fileNames = <<>>
     THEN IF v.folderValue = ""
          THEN IF IsMd(getAbstractFileByPath(vlt, active))
               THEN FilesList("active", getAbstractFileByPath(vlt, active).name, <<>>)
               ELSE FilesList("nocontext", "", <<>>)
          ELSE FilesList("nofiles", v.folderValue, <<>>)
     ELSE FilesList("list", "", fileNames)]

updateLabelForFolderSelect(v) ==
  [v EXCEPT !.folderLabel =
     IF v.folderValue # "" THEN "Context Folder:" ELSE "Select context folder"]

updateLabelForPromptFileSelect(v) ==
  [v EXCEPT !.promptFileLabel =
     IF v.promptFileValue # "" THEN "Select Prompt File:" ELSE "Prompt file location"]

\* responseDivEl.empty(): the "Thinking..." element, if in it, is detached
emptyResponse(v) ==
  [v EXCEPT !.responseEls = <<>>,
            !.thinkingPEl = IF @ = "attached" THEN "detached" ELSE @]

IsThinking(el) == el.type = "thinking"

\* if (this.thinkingPEl && this.thinkingPEl.parentElement) { remove; = null }
removeThinking(v) ==
  IF v.thinkingPEl = "attached"
  THEN [v EXCEPT !.responseEls = SelectSeq(@, LAMBDA el : ~IsThinking(el)),
                 !.thinkingPEl = "null"]
  ELSE v

Element(type, prompt, reply, message) ==
  [type |-> type, prompt |-> prompt, reply |-> reply, message |-> message]

appendElement(v, el) == [v EXCEPT !.responseEls = Append(@, el)]

\* a ConversationEntry, without its timestamp
Entry(userPrompt, aiResponse) ==
  [userPrompt |-> userPrompt, aiResponse |-> aiResponse]

\* renderConversationEntry up to its await on the Markdown renderer
renderConversationEntry(v, entry) ==
  appendElement(v, Element("entry", entry.userPrompt, entry.aiResponse, ""))

displayInitialMessage(v) ==
  appendElement(emptyResponse(v), Element("welcome", <<>>, <<>>, ""))

HasEntryElement(v) ==
  \E i \in 1..Len(v.responseEls) : v.responseEls[i].type = "entry"

(***************************************************************************)
(* Suspended handlers.  A task is the continuation of one handler: which   *)
(* handler, where it waits, and its local variables.                       *)
(***************************************************************************)
Task(kind, pc) ==
  [kind |-> kind, pc |-> pc,
   open |-> FALSE,       \* part of onOpen, which goes on after it
   file |-> "",          \* path of the file being read
   folder |-> "",        \* folderPath of loadContextFromFolder
   files |-> <<>>,       \* files still to read, the one being read first
   content |-> <<>>,     \* concatenatedContent, or userPromptText
   tokens |-> 0,         \* currentTokens
   names |-> <<>>,       \* loadedFileNames
   text |-> "",          \* originalButtonText
   request |-> NoRequest,\* the request the handler waits on
   reply |-> <<>>,       \* rawMarkdownResponse
   idx |-> 0,            \* position of loadAndDisplayHistory in the history
   seen |-> {},          \* prompt texts a load has compared against so far
   wrote |-> FALSE]      \* the handler has assigned currentContextContent

Spawn(t) == tasks' = tasks (+) SetToBag({t})

Resume(t, next) == tasks' = (tasks (-) SetToBag({t})) (+) SetToBag(next)

Finish(t) == tasks' = tasks (-) SetToBag({t})

Room == BagCardinality(tasks) < MaxTasks

Running(kind) == \E t \in BagToSet(tasks) : t.kind = kind

\* what a step was: the action, the notices it showed, the requests it sent,
\* and, when a handler ended in it, which one and how
Ev(name) ==
  [name |-> name, notices |-> <<>>, sent |-> 0,
   done |-> "",       \* the handler that ended in this step
   outcome |-> "",    \* how it ended
   arg |-> "",        \* the folder or file it was called for
   wrote |-> FALSE,   \* it assigned currentContextContent
   before |-> <<>>,   \* currentContextContent before a folder change ended
   seen |-> {},       \* prompt texts a load compared against
   resp |-> NoResponse] \* the response an exchange ended with

Done(e, handler, outcome, arg, wrote) ==
  [e EXCEPT !.done = handler, !.outcome = outcome, !.arg = arg, !.wrote = wrote]

Notify(e, notice) == [e EXCEPT !.notices = Append(@, notice)]

Spend == budget > 0 /\ budget' = budget - 1

Interactive == view.opened /\ view.connected

(***************************************************************************)
(* onOpen.                                                                 *)
(***************************************************************************)
ViewInit ==
  [opened |-> FALSE, connected |-> TRUE, leafRegistered |-> FALSE,
   currentContextContent |-> <<>>, promptValue |-> <<>>,
   disabled |-> [prompt |-> FALSE, submit |-> FALSE, folder |-> FALSE,
                 promptFile |-> FALSE],
   submitText |-> "", folderValue |-> "", promptFileValue |-> "",
   folderLabel |-> "", promptFileLabel |-> "",
   responseEls |-> <<>>, thinkingPEl |-> "null",
   tokenWarning |-> [kind |-> "none", context |-> 0, prompt |-> 0, total |-> 0,
                     display |-> "none", color |-> "error"],
   filesList |-> FilesList("unset", "", <<>>)]

\* onOpen, lines 148-379: the elements and their listeners
buildElements(v) ==
  [v EXCEPT !.opened = TRUE, !.submitText = "Ask AI",
            !.folderLabel = "Context Folder:",
            !.promptFileLabel = "Select Prompt File:",
            !.filesList = FilesList("initial", "", <<>>)]

syncTail(v) ==
  updateLabelForFolderSelect(updateLabelForPromptFileSelect(updateTokenWarning(v)))

\* syncWithActiveFile for a file that is not Markdown, or none
syncWithoutFile(v, vlt, active) ==
  IF v.folderValue = ""
  THEN syncTail(updateConcatenatedFilesList(
                  [v EXCEPT !.currentContextContent = <<>>], <<>>, vlt, active))
  ELSE syncTail(v)

\* syncWithActiveFile after its read of a Markdown file, assigning nothing
syncAfterReadKeepingContext(v, vlt, path, active) == syncTail(v)

\* syncWithActiveFile after its read of a Markdown file
syncAfterRead(v, vlt, path, active) ==
  syncTail(updateConcatenatedFilesList(
             [v EXCEPT !.currentContextContent = cachedRead(vlt, path)],
             <<getAbstractFileByPath(vlt, path).name>>, vlt, active))

\* onOpen from loadAndDisplayHistory on, lines 408-421
openTail(v, history) ==
  LET shown == IF Len(history) > 0
               THEN renderConversationEntry(emptyResponse(v), history[1])
               ELSE displayInitialMessage(emptyResponse(v))
  IN [updateTokenWarning(updateLabelForPromptFileSelect(
        updateLabelForFolderSelect(shown))) EXCEPT !.leafRegistered = TRUE]

HistoryTasks(history) ==
  IF Len(history) > 0 THEN {[Task("history", "render") EXCEPT !.idx = 1]} ELSE {}

\* onOpen from its call of syncWithActiveFile on, lines 403-421
OpenSync(v, base, e) ==
  LET md == IsMd(getAbstractFileByPath(vault, activeFile))
  IN IF v.folderValue = "" /\ md
     THEN /\ view' = v
          /\ tasks' = base (+) SetToBag({[Task("sync", "read") EXCEPT
                                           !.open = TRUE, !.file = activeFile]})
          /\ ev' = e
     ELSE /\ view' = openTail(syncWithoutFile(v, vault, activeFile),
                              settings.chatHistory)
          /\ tasks' = base (+) SetToBag(HistoryTasks(settings.chatHistory))
          /\ ev' = Done(e, "open", "", "", v.folderValue = "")

OnOpen ==
  /\ ~view.opened
  /\ Room
  /\ LET v == buildElements(view)
         path == settings.promptFilePath
     IN IF /\ path # ""
           /\ IsMd(getAbstractFileByPath(vault, path))
           /\ path \in PromptFileOptions(vault, settings.promptFilesFolderPath)
        THEN /\ view' = [v EXCEPT !.promptFileValue = path]
             /\ Spawn([Task("promptfile", "read") EXCEPT !.open = TRUE,
                                                         !.file = path])
             /\ ev' = Ev("OnOpen")
        ELSE OpenSync(v, tasks, Ev("OnOpen"))
  /\ UNCHANGED <<vault, activeFile, editor, settings, net, budget>>

(***************************************************************************)
(* The prompt textarea and the prompt file select.                         *)
(***************************************************************************)
\* texts the user types
Prompts == { <<>>, <<"ws">>, <<"q">> }

\* the textarea's input listener, lines 232-236
Input(p) ==
  /\ Interactive /\ ~view.disabled.prompt
  /\ p # view.promptValue
  /\ Spend
  /\ view' = updateTokenWarning([view EXCEPT !.promptValue = p])
  /\ ev' = Ev("Input")
  /\ UNCHANGED <<vault, activeFile, editor, settings, tasks, net>>

promptFileTail(v) == updateLabelForPromptFileSelect(updateTokenWarning(v))

\* handlePromptFileSelectionChange once it has the text to put in the textarea
promptFileSet(v, text) ==
  promptFileTail(updateTokenWarning([v EXCEPT !.promptValue = text]))

\* the prompt file select's change listener, lines 213-215 and 650-666
PromptFileChange(path) ==
  /\ Interactive /\ ~view.disabled.promptFile
  /\ path # view.promptFileValue
  /\ Spend
  /\ LET v == [view EXCEPT !.promptFileValue = path]
     IN IF path # ""
        THEN IF IsMd(getAbstractFileByPath(vault, path))
             THEN /\ Room
                  /\ view' = v
                  /\ Spawn([Task("promptfile", "read") EXCEPT !.file = path])
                  /\ ev' = Ev("PromptFileChange")
             ELSE /\ view' = promptFileTail(v)
                  /\ ev' = Done(Ev("PromptFileChange"), "promptfile", "", path, FALSE)
                  /\ UNCHANGED tasks
        ELSE /\ view' = promptFileSet(v, <<>>)
             /\ ev' = Done(Ev("PromptFileChange"), "promptfile", "", path, FALSE)
             /\ UNCHANGED tasks
  /\ UNCHANGED <<vault, activeFile, editor, settings, net>>

\* the read of handlePromptFileSelectionChange returns, line 655
PromptFileRead(t) ==
  /\ t.kind = "promptfile"
  /\ LET v == promptFileSet(view, cachedRead(vault, t.file))
     IN IF t.open
        THEN OpenSync(v, tasks (-) SetToBag({t}), Ev("PromptFileRead"))
        ELSE /\ view' = v
             /\ Finish(t)
             /\ ev' = Done(Ev("PromptFileRead"), "promptfile", "", t.file, FALSE)
  /\ UNCHANGED <<vault, activeFile, editor, settings, net, budget>>

(***************************************************************************)
(* The active file.                                                        *)
(***************************************************************************)
\* the files the user may make the active one, "" for none
ActiveChoices == { "", "A/a2.md", "n.txt" }

\* the user activates another leaf: the workspace emits active-leaf-change,
\* which handleActiveLeafChange handles once onOpen has registered it
LeafChange(path) ==
  /\ Spend
  /\ activeFile' = path
  /\ IF ~view.leafRegistered
     THEN /\ ev' = Ev("LeafChangeUnheard")
          /\ UNCHANGED <<view, tasks>>
     ELSE IF ~view.connected
     THEN /\ ev' = Done(Ev("LeafChange"), "leaf", "detached", path, FALSE)
          /\ UNCHANGED <<view, tasks>>
     ELSE IF view.folderValue = "" /\ IsMd(getAbstractFileByPath(vault, path))
     THEN /\ Room
          /\ Spawn([Task("sync", "read") EXCEPT !.file = path])
          /\ ev' = Ev("LeafChange")
          /\ UNCHANGED view
     ELSE /\ view' = syncWithoutFile(view, vault, path)
          /\ ev' = Done(Ev("LeafChange"), "leaf",
                        IF view.folderValue = "" THEN "nofile" ELSE "folder",
                        path, view.folderValue = "")
          /\ UNCHANGED tasks
  /\ UNCHANGED <<vault, editor, settings, net>>

\* the read of syncWithActiveFile returns, line 542
SyncRead(t) ==
  /\ t.kind = "sync"
  /\ LET v == syncAfterRead(view, vault, t.file, activeFile)
     IN IF t.open
        THEN /\ view' = openTail(v, settings.chatHistory)
             /\ tasks' = (tasks (-) SetToBag({t}))
                           (+) SetToBag(HistoryTasks(settings.chatHistory))
             /\ ev' = Done(Ev("SyncRead"), "open", "", t.file, TRUE)
        ELSE /\ view' = v
             /\ Finish(t)
             /\ ev' = Done(Ev("SyncRead"), "leaf", "read", t.file, TRUE)
  /\ UNCHANGED <<vault, activeFile, editor, settings, net, budget>>

\* the view's leaf is detached
Close ==
  /\ Interactive
  /\ Spend
  /\ view' = [view EXCEPT !.connected = FALSE]
  /\ ev' = Ev("Close")
  /\ UNCHANGED <<vault, activeFile, editor, settings, tasks, net>>

(***************************************************************************)
(* The folder select and loadContextFromFolder.                            *)
(***************************************************************************)
folderTail(v) == updateLabelForFolderSelect(updateTokenWarning(v))

\* the check of loadContextFromFolder counting the separator of the file too
exceedsLimitCountingSeparator(currentTokens, fileTokens, promptTokens) ==
  currentTokens + fileTokens + estimateTokens(Separator) + promptTokens
    > MAX_CONTEXT_TOKENS

\* the check of loadContextFromFolder, lines 705-710
exceedsLimit(currentTokens, fileTokens, promptTokens) ==
  currentTokens + fileTokens + promptTokens > MAX_CONTEXT_TOKENS

\* loadContextFromFolder appending to the context it finds
startContentFromCurrent(v) == v.currentContextContent

\* let concatenatedContent = ""
startContent(v) == <<>>

\* loadContextFromFolder after its loop, lines 722-731, and then
\* handleFolderSelectionChange after its await, lines 684-685
loadEnd(v, t, vlt, active) ==
  folderTail(updateTokenWarning(updateConcatenatedFilesList(
    [v EXCEPT !.currentContextContent = t.content], t.names, vlt, active)))

LoadEndEv(e, t, stopped) ==
  LET e1 == IF t.content # <<>> THEN Notify(e, "Context loaded") ELSE e
  IN [Done(e1, "folder", IF stopped THEN "stopped" ELSE "all", t.folder, TRUE)
        EXCEPT !.before = view.currentContextContent, !.seen = t.seen]

\* handleFolderSelectionChange with no folder selected, up to its read
folderCleared(v, vlt, active) ==
  updateConcatenatedFilesList([v EXCEPT !.currentContextContent = <<>>],
                              <<>>, vlt, active)

\* handleFolderSelectionChange with no folder selected, after its read
folderClearedRead(v, vlt, path, active) ==
  folderTail(updateConcatenatedFilesList(
               [v EXCEPT !.currentContextContent = cachedRead(vlt, path)],
               <<getAbstractFileByPath(vlt, path).name>>, vlt, active))

\* the folder select's change listener, lines 193-195 and 668-686, with
\* loadContextFromFolder up to its first read
FolderChange(path) ==
  /\ Interactive /\ ~view.disabled.folder
  /\ path # view.folderValue
  /\ Spend
  /\ LET v == [view EXCEPT !.folderValue = path]
         files == FilesToLoad(vault, path)
         t == [Task("load", "read") EXCEPT !.folder = path, !.files = files,
                                            !.content = startContent(view)]
     IN IF path # ""
        THEN IF files # <<>>
             THEN /\ Room
                  /\ view' = v
                  /\ Spawn(t)
                  /\ ev' = Notify(Ev("FolderChange"), "Loading context")
             ELSE /\ view' = loadEnd(v, t, vault, activeFile)
                  /\ ev' = LoadEndEv(Notify(Ev("FolderChange"), "Loading context"),
                                     t, FALSE)
                  /\ UNCHANGED tasks
        ELSE IF IsMd(getAbstractFileByPath(vault, activeFile))
             THEN /\ Room
                  /\ view' = folderCleared(v, vault, activeFile)
                  /\ Spawn([Task("clear", "read") EXCEPT !.file = activeFile,
                                                         !.wrote = TRUE])
                  /\ ev' = Ev("FolderChange")
             ELSE /\ view' = folderTail(folderCleared(v, vault, activeFile))
                  /\ ev' = [Done(Ev("FolderChange"), "folder", "nofile", "", TRUE)
                              EXCEPT !.before = view.currentContextContent]
                  /\ UNCHANGED tasks
  /\ UNCHANGED <<vault, activeFile, editor, settings, net>>

\* a read of loadContextFromFolder returns: one turn of its loop, lines
\* 701-721, and what follows the loop when this was the last turn
LoadRead(t) ==
  /\ t.kind = "load"
  /\ LET file == Head(t.files)
         fileContent == file.content
         fileTokens == estimateTokens(fileContent)
         promptTokens == estimateTokens(view.promptValue)
         seen == t.seen \cup {view.promptValue}
         stop == exceedsLimit(t.tokens, fileTokens, promptTokens)
         added == [t EXCEPT !.content = @ \o fileContent \o Separator,
                            !.tokens = @ + fileTokens + estimateTokens(Separator),
                            !.names = Append(@, file.name),
                            !.files = Tail(@),
                            !.seen = seen]
     IN IF stop
        THEN /\ view' = loadEnd(view, t, vault, activeFile)
             /\ Finish(t)
             /\ ev' = LoadEndEv(Notify(Ev("LoadRead"), "Stopped adding files"),
                                [t EXCEPT !.seen = seen], TRUE)
        ELSE IF added.files # <<>>
        THEN /\ Resume(t, {added})
             /\ ev' = Ev("LoadRead")
             /\ UNCHANGED view
        ELSE /\ view' = loadEnd(view, added, vault, activeFile)
             /\ Finish(t)
             /\ ev' = LoadEndEv(Ev("LoadRead"), added, FALSE)
  /\ UNCHANGED <<vault, activeFile, editor, settings, net, budget>>

\* the read of handleFolderSelectionChange with no folder selected returns
ClearRead(t) ==
  /\ t.kind = "clear"
  /\ view' = folderClearedRead(view, vault, t.file, activeFile)
  /\ Finish(t)
  /\ ev' = [Done(Ev("ClearRead"), "folder", "active", t.file, TRUE)
              EXCEPT !.before = view.currentContextContent]
  /\ UNCHANGED <<vault, activeFile, editor, settings, net, budget>>

(***************************************************************************)
(* The panel's submit: handleSubmit, lines 269-367.                        *)
(***************************************************************************)
\* the prompt check comparing with the empty text, without trim
isBlankWithoutTrim(text) == text = <<>>

\* !userPromptText.trim()
isBlank(text) == Trim(text) = <<>>

\* the limit check of handleSubmit on the prompt alone
submitTokensOfPrompt(context, userPromptText) == estimateTokens(userPromptText)

\* this.estimateTokens(this.currentContextContent + userPromptText)
submitTokens(context, userPromptText) == estimateTokens(context \o userPromptText)

\* the key check of callOpenAI and of the summarize command, skipped
keyMissingNever(apiKey) == FALSE

\* !this.settings.openAiApiKey
keyMissing(apiKey) == apiKey = ""

\* handleSubmit from its first line to the "Thinking..." element, lines 270-294
submitBegin(v, history) ==
  LET v1 == setUIEnabled([v EXCEPT !.submitText = "Thinking..."], FALSE)
      v2 == IF Len(history) = 0 /\ ~HasEntryElement(v1)
            THEN emptyResponse(v1) ELSE v1
      v3 == removeThinking(v2)
  IN [appendElement(v3, Element("thinking", <<>>, <<>>, ""))
        EXCEPT !.thinkingPEl = "attached"]

\* the end of handleSubmit that leaves the button's text as it is
submitEndKeepingText(v, originalButtonText) == setUIEnabled(removeThinking(v), TRUE)

\* the end of handleSubmit that leaves the controls disabled
submitEndKeepingDisabled(v, originalButtonText) ==
  [removeThinking(v) EXCEPT !.submitText = originalButtonText]

\* what every exit of handleSubmit does last: lines 299-301, 315-317, 362-364
submitEnd(v, originalButtonText) ==
  setUIEnabled([removeThinking(v) EXCEPT !.submitText = originalButtonText], TRUE)

\* the limit branch, lines 311-314
limitExceeded(v, totalTokens) ==
  [v EXCEPT !.tokenWarning.kind = "exceeded", !.tokenWarning.total = totalTokens,
            !.tokenWarning.display = "block"]

\* the catch block, lines 349-360
submitCatch(v, message) ==
  appendElement(removeThinking(v), Element("error", <<>>, <<>>, message))

CatchEv(e, message) ==
  IF message # KeyNotSet THEN Notify(e, "Error") ELSE e

handleSubmit(name) ==
  /\ Interactive
  /\ Spend
  /\ LET originalButtonText == view.submitText
         v == submitBegin(view, settings.chatHistory)
         userPromptText == view.promptValue
         totalTokens == submitTokens(view.currentContextContent, userPromptText)
         request == Request("panel", settings.openAiApiKey, settings.defaultModel,
                            PanelSystemPrompt,
                            fullPrompt(view.currentContextContent, userPromptText))
     IN IF isBlank(userPromptText)
        THEN /\ view' = submitEnd(v, originalButtonText)
             /\ ev' = Done(Notify(Ev(name), "Please enter a prompt."),
                           "submit", "blank", "", FALSE)
             /\ UNCHANGED <<tasks, net>>
        ELSE IF totalTokens > MAX_CONTEXT_TOKENS
        THEN /\ view' = submitEnd(limitExceeded(v, totalTokens), originalButtonText)
             /\ ev' = Done(Notify(Ev(name), "Error: token limit"),
                           "submit", "limit", "", FALSE)
             /\ UNCHANGED <<tasks, net>>
        ELSE IF keyMissing(settings.openAiApiKey)
        THEN /\ view' = submitEnd(submitCatch(v, KeyNotSet), originalButtonText)
             /\ ev' = Done(CatchEv(Notify(Ev(name), KeyNotSet), KeyNotSet),
                           "submit", "nokey", "", FALSE)
             /\ UNCHANGED <<tasks, net>>
        ELSE /\ Room
             /\ view' = v
             /\ Spawn([Task("submit", "fetch") EXCEPT
                         !.content = userPromptText, !.text = originalButtonText,
                         !.request = request])
             /\ net' = net (+) SetToBag({request})
             /\ ev' = [Ev(name) EXCEPT !.sent = 1]
  /\ UNCHANGED <<vault, activeFile, editor, settings>>

\* the button's click listener, line 369
SubmitClick == ~view.disabled.submit /\ handleSubmit("Submit")

\* the textarea's keydown listener on Enter, lines 371-379
SubmitEnter == ~view.disabled.prompt /\ handleSubmit("Submit")

\* a failed request sent once more
SubmitFailedRetry(t, out, resp) ==
  /\ tasks' = tasks
  /\ net' = net
  /\ view' = view
  /\ settings' = settings
  /\ ev' = [Ev("SubmitResponse") EXCEPT !.sent = 1, !.resp = resp]

\* the request fails: the catch and finally blocks, lines 348-366
SubmitFailed(t, out, resp) ==
  /\ view' = submitEnd(submitCatch(view, out.message), t.text)
  /\ Finish(t)
  /\ net' = net (-) SetToBag({t.request})
  /\ ev' = [Done(CatchEv(Ev("SubmitResponse"), out.message),
                 "submit", "error", "", FALSE) EXCEPT !.resp = resp]
  /\ UNCHANGED settings

\* the new entry put before the entries of the history
pushEntryFirst(history, entry) == <<entry>> \o history

\* this.plugin.settings.chatHistory.push(newEntry)
pushEntry(history, entry) == Append(history, entry)

\* the exchange of a panel request ends, lines 325-340
SubmitResponse(t, resp) ==
  /\ t.kind = "submit" /\ t.pc = "fetch"
  /\ LET out == callChatGPT(resp)
     IN IF out.threw
        THEN SubmitFailed(t, out, resp)
        ELSE /\ view' = removeThinking(view)
             /\ settings' = [settings EXCEPT !.chatHistory =
                               pushEntry(@, Entry(t.content, out.value))]
             /\ Resume(t, {[t EXCEPT !.pc = "save", !.reply = out.value]})
             /\ net' = net (-) SetToBag({t.request})
             /\ ev' = [Ev("SubmitResponse") EXCEPT !.resp = resp]
  /\ UNCHANGED <<vault, activeFile, editor, budget>>

\* saveSettings returns or fails, lines 340-366
SubmitSaved(t, saved) ==
  /\ t.kind = "submit" /\ t.pc = "save"
  /\ IF saved
     THEN /\ view' = submitEnd(updateTokenWarning(
                       [renderConversationEntry(view, Entry(t.content, t.reply))
                          EXCEPT !.promptValue = <<>>]), t.text)
          /\ ev' = Done(Ev("SubmitSaved"), "submit", "success", "", FALSE)
     ELSE /\ view' = submitEnd(submitCatch(view, "save failed"), t.text)
          /\ ev' = Done(CatchEv(Ev("SubmitSaved"), "save failed"),
                        "submit", "savefailed", "", FALSE)
  /\ Finish(t)
  /\ UNCHANGED <<vault, activeFile, editor, settings, net, budget>>

\* loadAndDisplayHistory: the renderer returns for one entry and the loop
\* goes on over the history as it is now, lines 523-528
HistoryRendered(t) ==
  /\ t.kind = "history"
  /\ IF t.idx < Len(settings.chatHistory)
     THEN /\ view' = renderConversationEntry(view, settings.chatHistory[t.idx + 1])
          /\ Resume(t, {[t EXCEPT !.idx = @ + 1]})
          /\ ev' = Ev("HistoryRendered")
     ELSE /\ Finish(t)
          /\ ev' = Done(Ev("HistoryRendered"), "history", "", "", FALSE)
          /\ UNCHANGED view
  /\ UNCHANGED <<vault, activeFile, editor, settings, net, budget>>

(***************************************************************************)
(* The summarize-selection command, lines 808-848, and the settings tab.   *)
(***************************************************************************)
Whole(e) == e.before \o e.sel \o e.after

\* replaceSelection putting the text after the selection and keeping it
replaceSelectionKeepingIt(e, text) ==
  [before |-> e.before \o e.sel \o text, sel |-> <<>>, after |-> e.after]

\* editor.replaceSelection(text)
replaceSelection(e, text) ==
  [before |-> e.before \o text, sel |-> <<>>, after |-> e.after]

\* the user selects the whole text of the editor, or nothing
Select(all) ==
  /\ Spend
  /\ editor' = IF all THEN [before |-> <<>>, sel |-> Whole(editor), after |-> <<>>]
                      ELSE [before |-> Whole(editor), sel |-> <<>>, after |-> <<>>]
  /\ editor' # editor
  /\ ev' = Ev("Select")
  /\ UNCHANGED <<vault, activeFile, settings, view, tasks, net>>

Summarize ==
  /\ Spend
  /\ LET selectedText == editor.sel
         request == Request("summarize", settings.openAiApiKey,
                            settings.defaultModel, SummarySystemPrompt,
                            fullPrompt(selectedText, <<"SUM">>))
     IN IF selectedText = <<>>
        THEN /\ ev' = Done(Notify(Ev("Summarize"), "No text selected."),
                           "summarize", "noselection", "", FALSE)
             /\ UNCHANGED <<tasks, net>>
        ELSE IF keyMissing(settings.openAiApiKey)
        THEN /\ ev' = Done(Notify(Ev("Summarize"), KeyNotSet),
                           "summarize", "nokey", "", FALSE)
             /\ UNCHANGED <<tasks, net>>
        ELSE /\ Room
             /\ Spawn([Task("summarize", "fetch") EXCEPT !.request = request])
             /\ net' = net (+) SetToBag({request})
             /\ ev' = [Notify(Ev("Summarize"), "Summarizing with ChatGPT...")
                         EXCEPT !.sent = 1]
  /\ UNCHANGED <<vault, activeFile, editor, settings, view>>

\* the exchange of a summarize request ends, lines 832-846
SummarizeResponse(t, resp) ==
  /\ t.kind = "summarize"
  /\ LET out == callChatGPT(resp)
     IN IF out.threw
        THEN /\ ev' = [Done(Notify(Ev("SummarizeResponse"), "Error summarizing"),
                            "summarize", "error", "", FALSE) EXCEPT !.resp = resp]
             /\ UNCHANGED editor
        ELSE /\ editor' = replaceSelection(editor, out.value)
             /\ ev' = [Done(Notify(Ev("SummarizeResponse"), "Summary complete!"),
                            "summarize", "success", "", FALSE) EXCEPT !.resp = resp]
  /\ Finish(t)
  /\ net' = net (-) SetToBag({t.request})
  /\ UNCHANGED <<vault, activeFile, settings, view, budget>>

ApiKeys == { "", "sk" }

\* the settings tab's key field, lines 925-928
SetApiKey(key) ==
  /\ Spend
  /\ key # settings.openAiApiKey
  /\ settings' = [settings EXCEPT !.openAiApiKey = key]
  /\ ev' = Ev("SetApiKey")
  /\ UNCHANGED <<vault, activeFile, editor, view, tasks, net>>

(***************************************************************************)
(* The specifications.                                                     *)
(***************************************************************************)
\* DEFAULT_SETTINGS overlaid with what the host has stored
SettingsChoices ==
  [openAiApiKey : ApiKeys, defaultModel : {"gpt-4o-mini"},
   promptFilePath : {"", "A/sub/s1.md"}, promptFilesFolderPath : {"A/sub"},
   chatHistory : { <<>>, << Entry(<<"s">>, <<"s">>) >> }]

EditorInit == [before |-> <<>>, sel |-> <<"s">>, after |-> <<>>]

Init ==
  /\ vault = VaultMain
  /\ activeFile = ""
  /\ editor = EditorInit
  /\ settings \in SettingsChoices
  /\ view = ViewInit
  /\ tasks = EmptyBag
  /\ net = EmptyBag
  /\ ev = Ev("Init")
  /\ budget = MaxEvents

InputStep == \E p \in Prompts : Input(p)

PromptFileStep ==
  \E path \in {""} \cup PromptFileOptions(vault, settings.promptFilesFolderPath) :
    PromptFileChange(path)

LeafStep == \E path \in ActiveChoices : LeafChange(path)

FolderStep == \E path \in {""} \cup FolderOptions(vault) : FolderChange(path)

SelectStep == \E all \in BOOLEAN : Select(all)

KeyStep == \E key \in ApiKeys : SetApiKey(key)

PromptFileReadStep == \E t \in BagToSet(tasks) : PromptFileRead(t)

SyncReadStep == \E t \in BagToSet(tasks) : SyncRead(t)

LoadReadStep == \E t \in BagToSet(tasks) : LoadRead(t)

ClearReadStep == \E t \in BagToSet(tasks) : ClearRead(t)

SubmitResponseStep ==
  \E t \in BagToSet(tasks) : \E resp \in Responses : SubmitResponse(t, resp)

SubmitSavedStep == \E t \in BagToSet(tasks) : \E saved \in BOOLEAN : SubmitSaved(t, saved)

HistoryRenderedStep == \E t \in BagToSet(tasks) : HistoryRendered(t)

SummarizeResponseStep ==
  \E t \in BagToSet(tasks) : \E resp \in Responses : SummarizeResponse(t, resp)

Next ==
  \/ OnOpen
  \/ InputStep
  \/ PromptFileStep
  \/ LeafStep
  \/ FolderStep
  \/ Close
  \/ SubmitClick
  \/ SubmitEnter
  \/ Summarize
  \/ SelectStep
  \/ KeyStep
  \/ PromptFileReadStep
  \/ SyncReadStep
  \/ LoadReadStep
  \/ ClearReadStep
  \/ SubmitResponseStep
  \/ SubmitSavedStep
  \/ HistoryRenderedStep
  \/ SummarizeResponseStep

Spec == Init /\ [][Next]_vars

\* the view as onOpen leaves it with this active file, no default prompt file
\* and no history
OpenedView(vlt, active) ==
  openTail(IF IsMd(getAbstractFileByPath(vlt, active))
           THEN syncAfterRead(buildElements(ViewInit), vlt, active, active)
           ELSE syncWithoutFile(buildElements(ViewInit), vlt, active), <<>>)

\* the active file of SpecLoad: none, or the note of the subfolder
LoadActiveChoices == { "", "A/sub/s1.md" }

\* loadContextFromFolder over many folders: the vault is any of LoadVaults, the
\* view is open, and the user types, selects folders and submits (with no key
\* set, so that no request goes out)
InitLoad ==
  /\ vault \in LoadVaults
  /\ activeFile \in LoadActiveChoices
  /\ editor = EditorInit
  /\ settings = [openAiApiKey |-> "", defaultModel |-> "gpt-4o-mini",
                 promptFilePath |-> "", promptFilesFolderPath |-> "",
                 chatHistory |-> <<>>]
  /\ view = OpenedView(vault, activeFile)
  /\ tasks = EmptyBag
  /\ net = EmptyBag
  /\ ev = Ev("Init")
  /\ budget = MaxLoadEvents

NextLoad ==
  \/ InputStep
  \/ FolderStep
  \/ LoadReadStep
  \/ ClearReadStep
  \/ SubmitClick

SpecLoad == InitLoad /\ [][NextLoad]_vars

\* the exchange of a panel request ends, and so does the save that follows a
\* reply: the endpoint answers or the fetch fails, and the host's saveData
\* returns or fails
SpecFair == Spec /\ WF_vars(SubmitResponseStep) /\ WF_vars(SubmitSavedStep)

(***************************************************************************)
(* What the properties below speak of.                                     *)
(***************************************************************************)
Context == view.currentContextContent

\* ceil(length / 3.5), from the specification's section 4.1
TokenEstimate(text) ==
  LET n == StrLen(text)
  IN IF (2 * n) % 7 = 0 THEN (2 * n) \div 7 ELSE (2 * n) \div 7 + 1

Ceiling == MAX_CONTEXT_TOKENS

OnlyWhitespace(text) == \A i \in 1..Len(text) : text[i] = "ws"

\* the Markdown documents directly in a folder
DocsOf(folder) ==
  { vault[i] : i \in { j \in 1..Len(vault) :
                         vault[j].extension = "md" /\ vault[j].parent = folder } }

RECURSIVE Joined(_)
\* documents put together, each followed by the separator
Joined(docs) ==
  IF docs = <<>> THEN <<>>
  ELSE Head(docs).content \o <<"SEP">> \o Joined(Tail(docs))

\* sequences of distinct documents of a set
Arrangements(docs) ==
  UNION { { seq \in [1..k -> docs] : \A i, j \in 1..k : i # j => seq[i] # seq[j] } :
          k \in 0..Cardinality(docs) }

\* the contexts that hold documents of the folder and nothing else
ContextsFrom(folder) == { Joined(seq) : seq \in Arrangements(DocsOf(folder)) }

ContentOf(path) ==
  IF \E i \in 1..Len(vault) : vault[i].path = path /\ vault[i].extension = "md"
  THEN (CHOOSE f \in { vault[i] : i \in 1..Len(vault) } : f.path = path).content
  ELSE <<>>

LoadEnded == ev.done = "folder" /\ ev.outcome \in {"all", "stopped"}

Controls == {"prompt", "submit", "folder", "promptFile"}

AllDisabled == \A c \in Controls : view.disabled[c]

AllEnabled == \A c \in Controls : ~view.disabled[c]

ThinkingShown ==
  \E i \in 1..Len(view.responseEls) : view.responseEls[i].type = "thinking"

PanelRequestOut == \E r \in BagToSet(net) : r.origin = "panel"

(***************************************************************************)
(* C1.  After loadContextFromFolder completes, the estimated token count   *)
(* of the assembled context, separators included, is at most the ceiling   *)
(* minus the estimate of the prompt that was pending during the load.      *)
(* Stated for the loads that saw one prompt text throughout.               *)
(***************************************************************************)
C1_ContextWithinCeiling ==
  LoadEnded =>
    \A p \in ev.seen :
      ev.seen = {p} => TokenEstimate(Context) <= Ceiling - TokenEstimate(p)

(***************************************************************************)
(* C2.  A panel submit whose prompt is empty or only whitespace sends no   *)
(* request, appends nothing to chatHistory, suspends nothing, and leaves   *)
(* the context buffer and the prompt text as they were.                    *)
(***************************************************************************)
C2_BlankPromptRejected ==
  [][ (ev'.name = "Submit" /\ OnlyWhitespace(view.promptValue)) =>
        /\ ev'.sent = 0
        /\ net' = net
        /\ tasks' = tasks
        /\ settings'.chatHistory = settings.chatHistory
        /\ view'.currentContextContent = view.currentContextContent
        /\ view'.promptValue = view.promptValue ]_vars

\* a whitespace-only prompt was submitted with a key set and was rejected
C2_Witness ==
  /\ ev.name = "Submit" /\ ev.done = "submit"
  /\ view.promptValue = <<"ws">>
  /\ settings.openAiApiKey # ""
  /\ ev.notices = <<"Please enter a prompt.">>

(***************************************************************************)
(* C3.  With an empty API key neither the panel submit nor the summarize   *)
(* command sends a request: the operation ends in the same step with no    *)
(* request, no history entry and no editor change, and where it got as far *)
(* as the key check (a prompt that is not blank and within the limit, a    *)
(* selection that is not empty) the missing-key notice is what it shows.   *)
(***************************************************************************)
C3_MissingKeyNoRequest ==
  [][ (ev'.name \in {"Submit", "Summarize"} /\ settings.openAiApiKey = "") =>
        /\ ev'.sent = 0
        /\ net' = net
        /\ tasks' = tasks
        /\ ev'.done # ""
        /\ settings'.chatHistory = settings.chatHistory
        /\ editor' = editor
        /\ (/\ ev'.name = "Submit"
            /\ ~OnlyWhitespace(view.promptValue)
            /\ TokenEstimate(view.currentContextContent \o view.promptValue)
                 <= Ceiling)
           => ev'.notices = <<KeyNotSet>>
        /\ (ev'.name = "Summarize" /\ editor.sel # <<>>)
           => ev'.notices = <<KeyNotSet>> ]_vars

\* the summarize command reported the missing key, after a panel submit had
\* reported it in the response area
C3_Witness ==
  /\ ev.name = "Summarize" /\ ev.notices = <<KeyNotSet>>
  /\ editor.sel # <<>>
  /\ settings.openAiApiKey = ""
  /\ \E i \in 1..Len(view.responseEls) :
       view.responseEls[i].type = "error" /\ view.responseEls[i].message = KeyNotSet
  /\ net = EmptyBag

(***************************************************************************)
(* C4.  A folder-selection change replaces the context and never appends   *)
(* to it: when handleFolderSelectionChange ends, the context buffer holds  *)
(* documents of the folder it was called for and nothing else (for the     *)
(* empty selection: the content of the document it read, or nothing), and  *)
(* it is a function of that folder's documents and the prompt the load     *)
(* saw, whatever the context was before.                                   *)
(***************************************************************************)
\* the documents of a folder in the order of their names
InNameOrder(folder) ==
  CHOOSE seq \in Arrangements(DocsOf(folder)) :
    /\ Len(seq) = Cardinality(DocsOf(folder))
    /\ \A i, j \in 1..Len(seq) : i < j => NameRank(seq[i].name) < NameRank(seq[j].name)

RECURSIVE AssembleFrom(_, _, _, _)
\* what one pass over the documents yields for a prompt, from nothing
AssembleFrom(docs, prompt, tokens, text) ==
  IF docs = <<>> THEN text
  ELSE IF tokens + TokenEstimate(Head(docs).content) + TokenEstimate(prompt) > Ceiling
       THEN text
       ELSE AssembleFrom(Tail(docs), prompt,
                         tokens + TokenEstimate(Head(docs).content)
                                + TokenEstimate(<<"SEP">>),
                         text \o Head(docs).content \o <<"SEP">>)

Assembled(folder, prompt) == AssembleFrom(InNameOrder(folder), prompt, 0, <<>>)

C4_FolderChangeReplaces ==
  ev.done = "folder" =>
    /\ LoadEnded => Context \in ContextsFrom(ev.arg)
    /\ LoadEnded => \A p \in ev.seen : ev.seen = {p} => Context = Assembled(ev.arg, p)
    /\ (LoadEnded /\ ev.seen = {}) => Context = <<>>
    /\ ev.outcome = "active" => Context = ContentOf(ev.arg)
    /\ ev.outcome = "nofile" => Context = <<>>

\* a folder load ended over a context that was not empty and left another one
C4_Witness ==
  /\ LoadEnded
  /\ ev.before # <<>>
  /\ Context # <<>>
  /\ Context # ev.before

(***************************************************************************)
(* C5.  At most one chat-completion request is in flight at any time.      *)
(***************************************************************************)
C5_SingleRequestInFlight == BagCardinality(net) <= 1

(***************************************************************************)
(* C6.  While a request sent by handleSubmit is outstanding, the prompt    *)
(* textarea, the submit button, the folder select and the prompt file      *)
(* select are all disabled.                                                *)
(***************************************************************************)
C6_DisabledDuringRequest == PanelRequestOut => AllDisabled

\* another event was handled while the panel's request was outstanding
C6_Witness ==
  /\ PanelRequestOut
  /\ AllDisabled
  /\ ev.name \in {"LeafChange", "Summarize", "SetApiKey"}

(***************************************************************************)
(* C7.  Every exit of handleSubmit restores the panel: whenever no submit  *)
(* is suspended the four controls are enabled (a further submit is         *)
(* accepted), the button reads "Ask AI" as before the submit and no        *)
(* "Thinking..." element is shown; and a suspended submit ends, given that *)
(* the exchange and the save end.                                          *)
(***************************************************************************)
Restored == AllEnabled /\ view.submitText = "Ask AI" /\ ~ThinkingShown

C7_SubmitEndsRestored ==
  /\ []((view.opened /\ ~Running("submit")) => Restored)
  /\ (Running("submit") ~> (~Running("submit") /\ Restored))

\* a submit whose request failed has ended and the panel is restored
C7_Witness ==
  /\ ev.done = "submit" /\ ev.outcome = "error"
  /\ Restored
  /\ ~Running("submit")

(***************************************************************************)
(* C8.  No automatic retry: a step sends at most one request, and only a   *)
(* step that is a panel submit or a summarize command sends one; the step  *)
(* in which a request fails sends none.                                    *)
(***************************************************************************)
C8_NoRetry ==
  [][ /\ ev'.sent <= 1
      /\ BagCardinality(net') <= BagCardinality(net) + ev'.sent
      /\ ev'.sent = 1 => ev'.name \in {"Submit", "Summarize"}
      /\ BagCardinality(net') > BagCardinality(net) => ev'.sent = 1 ]_vars

\* a panel request has failed and nothing is in flight
C8_Witness ==
  /\ ev.name = "SubmitResponse" /\ ev.outcome = "error"
  /\ ev.sent = 0
  /\ net = EmptyBag

(***************************************************************************)
(* C9.  With no folder selected and no context handler running, the        *)
(* context buffer of the open, connected view is the content of the active *)
(* Markdown document, or empty when there is none or it is not Markdown.   *)
(***************************************************************************)
ContextHandlerRunning ==
  \E t \in BagToSet(tasks) : t.kind \in {"load", "sync", "clear"} \/ t.open

C9_FallsBackToActiveFile ==
  (/\ view.leafRegistered /\ view.connected
   /\ view.folderValue = "" /\ ~ContextHandlerRunning)
    => Context = ContentOf(activeFile)

(***************************************************************************)
(* C10.  As claimed: every active-leaf-change handled on a connected view  *)
(* and every folder-selection change makes its handler assign the context  *)
(* buffer.                                                                 *)
(***************************************************************************)
C10_EveryChangeRebuilds ==
  (ev.done \in {"leaf", "folder"} /\ ev.outcome # "detached") => ev.wrote

(***************************************************************************)
(* C10, amended.  Every folder-selection change, and every                 *)
(* active-leaf-change handled on a connected view while no folder is       *)
(* selected, makes its handler assign the context buffer from the source   *)
(* it read: the documents of the folder, or the document that was active   *)
(* at the event (nothing when that is none or not Markdown).  With a       *)
(* folder selected the handler of an active-leaf-change assigns nothing.   *)
(***************************************************************************)
C10_ChangeRebuildsUnlessFolder ==
  /\ ev.done = "folder" =>
       /\ ev.wrote
       /\ LoadEnded => Context \in ContextsFrom(ev.arg)
       /\ ~LoadEnded => Context \in {<<>>, ContentOf(ev.arg)}
  /\ (ev.done = "leaf" /\ ev.outcome \in {"read", "nofile"}) =>
       /\ ev.wrote
       /\ Context = ContentOf(ev.arg)
  /\ (ev.done = "leaf" /\ ev.outcome = "folder") =>
       /\ ~ev.wrote
       /\ view.folderValue # ""

\* the handler of an active-leaf-change read a Markdown document and assigned
\* its content
C10_Witness ==
  /\ ev.done = "leaf" /\ ev.outcome = "read"
  /\ ev.wrote
  /\ Context # <<>>
  /\ Context = ContentOf(ev.arg)

(***************************************************************************)
(* What the properties about exchanges speak of.                           *)
(***************************************************************************)
History == settings.chatHistory

IsPrefixOf(a, b) == Len(a) <= Len(b) /\ SubSeq(b, 1, Len(a)) = a

\* a text without its leading and trailing whitespace
Stripped(text) ==
  LET keep == { i \in 1..Len(text) : text[i] # "ws" }
  IN IF keep = {} THEN <<>>
     ELSE SubSeq(text, CHOOSE i \in keep : \A j \in keep : i <= j,
                       CHOOSE i \in keep : \A j \in keep : j <= i)

\* an OK response whose first choice has a message with text
Usable(resp) ==
  /\ resp.kind = "body" /\ resp.ok /\ resp.json
  /\ Len(resp.choices) > 0
  /\ resp.choices[1].hasMessage /\ resp.choices[1].hasContent

ReplyOf(resp) == Stripped(resp.choices[1].content)

\* the submit that waits for its reply
WaitingSubmits(ts) == { t \in BagToSet(ts) : t.kind = "submit" /\ t.pc = "fetch" }

(***************************************************************************)
(* C11.  The chat history is an append-only log: a step leaves the entries *)
(* it finds as they are and in their places, and adds at most one; the     *)
(* step in which a panel submit receives a usable reply adds, at the end,  *)
(* one entry holding the prompt text that submit read and the reply; no    *)
(* other step (a rejected submit, a failed request) adds an entry.         *)
(***************************************************************************)
C11_HistoryAppendOnly ==
  [][ /\ IsPrefixOf(History, History')
      /\ Len(History') <= Len(History) + 1
      /\ (ev'.name = "Submit" /\ ev'.sent = 1) =>
           /\ WaitingSubmits(tasks) = {}
           /\ \E t \in WaitingSubmits(tasks') :
                WaitingSubmits(tasks') = {t} /\ t.content = view.promptValue
      /\ (ev'.name = "SubmitResponse" /\ Usable(ev'.resp)) =>
           \E t \in WaitingSubmits(tasks) :
             History' = History \o << [userPrompt |-> t.content,
                                       aiResponse |-> ReplyOf(ev'.resp)] >>
      /\ History' # History => (ev'.name = "SubmitResponse" /\ Usable(ev'.resp))
    ]_vars

\* a reply was appended after the entry the history had
C11_Witness ==
  /\ ev.name = "SubmitResponse" /\ Usable(ev.resp)
  /\ Len(History) = 2
  /\ History[1] = [userPrompt |-> <<"s">>, aiResponse |-> <<"s">>]
  /\ History[2] = [userPrompt |-> <<"q">>, aiResponse |-> <<"r">>]

(***************************************************************************)
(* What the properties about a folder load speak of.                       *)
(***************************************************************************)
\* the names the context-source list shows
ListedNames ==
  IF view.filesList.kind = "list" THEN view.filesList.names ELSE <<>>

NamesOf(docs) == [i \in 1..Len(docs) |-> docs[i].name]

RECURSIVE RunningEstimate(_, _)
\* the running estimate once the first n documents are in: their estimates
\* and one separator's estimate for each
RunningEstimate(docs, n) ==
  IF n = 0 THEN 0
  ELSE RunningEstimate(docs, n - 1) + TokenEstimate(docs[n].content)
         + TokenEstimate(<<"SEP">>)

\* document i does not fit after the i - 1 before it, with this prompt pending
Skipped(docs, prompt, i) ==
  RunningEstimate(docs, i - 1) + TokenEstimate(docs[i].content)
    + TokenEstimate(prompt) > Ceiling

\* how many documents are in: all those before the first that does not fit
IncludedCount(docs, prompt) ==
  IF \E i \in 1..Len(docs) : Skipped(docs, prompt, i)
  THEN (CHOOSE i \in 1..Len(docs) :
          /\ Skipped(docs, prompt, i)
          /\ \A j \in 1..(i - 1) : ~Skipped(docs, prompt, j)) - 1
  ELSE Len(docs)

(***************************************************************************)
(* C12.  When loadContextFromFolder ends, the documents in the context are *)
(* a prefix of the folder's direct-child Markdown documents in name order, *)
(* each followed by the separator, and the list names that prefix; no      *)
(* document of a subfolder is among them.  For a load that saw one prompt  *)
(* text throughout, the prefix ends just before the first document for     *)
(* which running estimate + its estimate + the prompt's estimate exceeds   *)
(* the ceiling, whether or not a later document would fit.                 *)
(***************************************************************************)
C12_IncludedIsSortedPrefix ==
  LoadEnded =>
    LET docs == InNameOrder(ev.arg)
    IN /\ \E k \in 0..Len(docs) :
            /\ Context = Joined(SubSeq(docs, 1, k))
            /\ ListedNames = NamesOf(SubSeq(docs, 1, k))
       /\ \A i \in 1..Len(ListedNames) :
            \E d \in DocsOf(ev.arg) : d.name = ListedNames[i] /\ d.parent = ev.arg
       /\ \A p \in ev.seen : ev.seen = {p} =>
            /\ Context = Joined(SubSeq(docs, 1, IncludedCount(docs, p)))
            /\ ListedNames = NamesOf(SubSeq(docs, 1, IncludedCount(docs, p)))

\* a load of three documents took the first, stopped at the second and left
\* out the third, which would have fit
C12_Witness ==
  /\ LoadEnded /\ ev.outcome = "stopped"
  /\ Len(InNameOrder(ev.arg)) = 3
  /\ Len(ListedNames) = 1
  /\ \E p \in ev.seen :
       /\ ev.seen = {p}
       /\ RunningEstimate(InNameOrder(ev.arg), 1)
            + TokenEstimate(InNameOrder(ev.arg)[3].content)
            + TokenEstimate(p) <= Ceiling

(***************************************************************************)
(* C14.  An exchange that ends with a response of non-OK status, or with   *)
(* an OK response that has no usable first choice (a body that is not      *)
(* JSON, no choices, a first choice without message, or a message without  *)
(* text), ends with                                                        *)
(* callChatGPT throwing: no string comes back, so no history entry is      *)
(* appended and the editor is not touched; the handler ends in its catch   *)
(* block, and the panel's last element is the error message carrying the   *)
(* message of the error thrown, with the error notice shown.               *)
(***************************************************************************)
\* a response was received and it is not an OK one with a usable first choice
Failing(resp) == resp.kind \in {"http", "body"} /\ (~resp.ok \/ ~Usable(resp))

\* the message of the error callChatGPT ends with on a failing response
UnderlyingMessage(resp) ==
  IF ~resp.json THEN "Unexpected token in JSON"
  ELSE IF ~resp.ok THEN "OpenAI API Error"
  ELSE IF Len(resp.choices) = 0 \/ ~resp.choices[1].hasMessage
       THEN "Unexpected API response structure from OpenAI."
       ELSE "Cannot read properties of undefined (reading 'trim')"

LastElement(v) == v.responseEls[Len(v.responseEls)]

C14_FailuresThrow ==
  [][ (ev'.name \in {"SubmitResponse", "SummarizeResponse"} /\ Failing(ev'.resp)) =>
        /\ ev'.outcome = "error"
        /\ History' = History
        /\ editor' = editor
        /\ ev'.name = "SubmitResponse" =>
             /\ ev'.done = "submit"
             /\ ~(\E t \in BagToSet(tasks') : t.kind = "submit")
             /\ Len(view'.responseEls) > 0
             /\ LastElement(view').type = "error"
             /\ LastElement(view').message = UnderlyingMessage(ev'.resp)
             /\ ev'.notices = <<"Error">>
        /\ ev'.name = "SummarizeResponse" =>
             /\ ev'.done = "summarize"
             /\ ev'.notices = <<"Error summarizing">> ]_vars

\* a panel request was answered OK with one choice that has no message, and
\* the panel shows the error
C14_Witness ==
  /\ ev.name = "SubmitResponse"
  /\ ev.resp.ok /\ Len(ev.resp.choices) = 1 /\ ~ev.resp.choices[1].hasMessage
  /\ ev.outcome = "error"
  /\ LastElement(view).type = "error"
  /\ LastElement(view).message = "Unexpected API response structure from OpenAI."

(***************************************************************************)
(* What came back from an exchange that just ended, as the state shows it. *)
(***************************************************************************)
EndsWith(text, tail) ==
  /\ Len(tail) <= Len(text)
  /\ SubSeq(text, Len(text) - Len(tail) + 1, Len(text)) = tail

\* the exchange that just ended handed this text back to its caller: the
\* panel stored it as the reply of the newest entry, the command put it in
\* the editor
HandedBack(text) ==
  /\ ev.outcome # "error"
  /\ ev.name = "SubmitResponse" =>
       /\ Len(History) > 0
       /\ History[Len(History)].aiResponse = text
  /\ ev.name = "SummarizeResponse" =>
       /\ ev.outcome = "success"
       /\ editor.sel = <<>>
       /\ EndsWith(editor.before, text)

ExchangeEnded == ev.name \in {"SubmitResponse", "SummarizeResponse"}

(***************************************************************************)
(* C15.  As claimed: on an OK response with at least one choice,           *)
(* callChatGPT returns the text of the first choice without its leading    *)
(* and trailing whitespace.                                                *)
(***************************************************************************)
C15_AnyFirstChoiceReturned ==
  (ExchangeEnded /\ ev.resp.ok /\ ev.resp.json /\ Len(ev.resp.choices) >= 1) =>
    HandedBack(Stripped(ev.resp.choices[1].content))

(***************************************************************************)
(* C15, amended.  On an OK response whose first choice has a message with  *)
(* text, callChatGPT returns that text without its leading and trailing    *)
(* whitespace, whatever the other choices are; on an OK response whose     *)
(* first choice has no message, or a message without text, it throws.      *)
(***************************************************************************)
C15_UsableFirstChoiceReturned ==
  /\ (ExchangeEnded /\ Usable(ev.resp)) => HandedBack(ReplyOf(ev.resp))
  /\ (ExchangeEnded /\ ev.resp.ok /\ ev.resp.json /\ Len(ev.resp.choices) >= 1
        /\ ~Usable(ev.resp)) => ev.outcome = "error"

\* the command received two choices and put the first, trimmed, in the editor
C15_Witness ==
  /\ ev.name = "SummarizeResponse" /\ ev.outcome = "success"
  /\ Len(ev.resp.choices) = 2
  /\ ev.resp.choices[1].content = <<"ws", "r", "ws">>
  /\ ev.resp.choices[2].content # ev.resp.choices[1].content
  /\ editor = [before |-> <<"r">>, sel |-> <<>>, after |-> <<>>]

(***************************************************************************)
(* C16.  The request a step sends carries exactly two messages: first one  *)
(* of role system holding the system instruction of its call site, then    *)
(* one of role user whose content is the context, a blank line and the     *)
(* user's text when the context is not empty, and the user's text alone    *)
(* when it is; its model and bearer token are the configured ones.  For    *)
(* the panel the context is the context buffer and the user's text the     *)
(* textarea's; for the command they are the selection and the fixed        *)
(* instruction to summarize.                                               *)
(***************************************************************************)
BlankLine == <<"ws", "ws">>

UserContent(context, text) ==
  IF context = <<>> THEN text ELSE context \o BlankLine \o text

\* the requests a step put in flight
SentIn(before, after) ==
  { r \in BagToSet(after) : CopiesIn(r, after) > CopiesIn(r, before) }

WellFormed(r, instruction, context, text) ==
  /\ Len(r.messages) = 2
  /\ r.messages[1].role = "system" /\ r.messages[1].text = instruction
  /\ r.messages[2].role = "user"
  /\ r.messages[2].content = UserContent(context, text)
  /\ r.model = settings.defaultModel
  /\ r.bearer = settings.openAiApiKey
  /\ r.url = "https://api.openai.com/v1/chat/completions"

C16_RequestShape ==
  [][ /\ ev'.sent = 1 => Cardinality(SentIn(net, net')) = 1
      /\ \A r \in SentIn(net, net') :
           /\ ev'.name \in {"Submit", "Summarize"}
           /\ ev'.name = "Submit" =>
                WellFormed(r, "You are a helpful AI assistant. Please format your response in Markdown.",
                           view.currentContextContent, view.promptValue)
           /\ ev'.name = "Summarize" =>
                WellFormed(r, "You are a helpful assistant that summarizes text concisely.",
                           editor.sel, <<"SUM">>) ]_vars

\* the panel sent a request whose user message is the context, a blank line
\* and the prompt
C16_Witness ==
  /\ ev.name = "Submit" /\ ev.sent = 1
  /\ Context # <<>>
  /\ \E r \in BagToSet(net) :
       /\ r.origin = "panel"
       /\ r.messages[2].content = Context \o BlankLine \o view.promptValue
       /\ r.bearer = "sk"

(***************************************************************************)
(* C17.  The summarize command changes the editor only on success: when    *)
(* its exchange ends with a usable reply the selection (as it is then) is  *)
(* replaced by the trimmed reply, the text around it staying; when the     *)
(* exchange fails, and when the command ends at once for lack of a         *)
(* selection or of a key, the editor is left as it was; and no other step  *)
(* changes the editor's text.                                              *)
(***************************************************************************)
TextOf(e) == e.before \o e.sel \o e.after

C17_ReplacedOnlyOnSuccess ==
  [][ /\ ev'.name = "SummarizeResponse" =>
           IF Usable(ev'.resp)
           THEN /\ ev'.outcome = "success"
                /\ editor' = [before |-> editor.before \o ReplyOf(ev'.resp),
                              sel |-> <<>>, after |-> editor.after]
           ELSE /\ ev'.outcome = "error"
                /\ editor' = editor
      /\ ev'.name = "Summarize" =>
           /\ editor' = editor
           /\ (editor.sel = <<>> \/ settings.openAiApiKey = "") =>
                (ev'.sent = 0 /\ tasks' = tasks /\ net' = net)
      /\ TextOf(editor') # TextOf(editor) =>
           (ev'.name = "SummarizeResponse" /\ Usable(ev'.resp)) ]_vars

\* the command's request was answered with one choice, whose trimmed text
\* now stands where the selected text was
C17_Witness ==
  /\ ev.name = "SummarizeResponse" /\ ev.outcome = "success"
  /\ Len(ev.resp.choices) = 1
  /\ TextOf(editor) = <<"r">>
  /\ editor.sel = <<>>

(***************************************************************************)
(* C18.  No request sent from the panel exceeds the token ceiling: the     *)
(* request a submit sends carries the context buffer and the prompt text   *)
(* as they are at the submit, and the estimate of the two together is at   *)
(* most 15000; a submit at which that estimate is above 15000 sends no     *)
(* request, suspends nothing and appends no history entry.                 *)
(***************************************************************************)
C18_NoPanelRequestAboveCeiling ==
  [][ /\ (ev'.name = "Submit" /\ ev'.sent = 1) =>
           /\ TokenEstimate(view.currentContextContent \o view.promptValue) <= Ceiling
           /\ \A r \in SentIn(net, net') :
                /\ r.origin = "panel"
                /\ r.messages[2].content =
                     UserContent(view.currentContextContent, view.promptValue)
      /\ (ev'.name = "Submit"
            /\ TokenEstimate(view.currentContextContent \o view.promptValue) > Ceiling) =>
           /\ ev'.sent = 0
           /\ net' = net
           /\ tasks' = tasks
           /\ History' = History
      /\ \A r \in SentIn(net, net') : r.origin = "panel" => ev'.name = "Submit" ]_vars

\* with a key set, a submit whose context and prompt are above the ceiling
\* was rejected and nothing is in flight
C18_Witness ==
  /\ ev.name = "Submit" /\ ev.outcome = "limit"
  /\ settings.openAiApiKey # ""
  /\ TokenEstimate(Context \o view.promptValue) > Ceiling
  /\ TokenEstimate(view.promptValue) <= Ceiling
  /\ net = EmptyBag

(***************************************************************************)
(* C19.  A request the panel sends while loadContextFromFolder is still    *)
(* reading the files of the selected folder carries, as its context,       *)
(* documents of that folder and nothing else: not the context left from    *)
(* the folder selected before or from the document that was active.        *)
(***************************************************************************)
\* loadContextFromFolder for the selected folder has not ended
LoadingSelected ==
  \E t \in BagToSet(tasks) : t.kind = "load" /\ t.folder = view.folderValue

C19_RequestCarriesSelectedFolder ==
  (ev.name = "Submit" /\ ev.sent = 1 /\ view.folderValue # "" /\ LoadingSelected) =>
    \A r \in BagToSet(net) :
      r.origin = "panel" =>
        \E c \in ContextsFrom(view.folderValue) :
          r.messages[2].content = UserContent(c, view.promptValue)

(***************************************************************************)
(* C20.  The last folder selection wins: once every loadContextFromFolder  *)
(* has ended, with a folder selected, the context buffer holds documents   *)
(* of the selected folder and nothing else, and the context-source list    *)
(* names documents of that folder, in whatever order overlapping loads     *)
(* ended.                                                                  *)
(***************************************************************************)
C20_LastSelectionWins ==
  (view.folderValue # "" /\ ~Running("load")) =>
    /\ Context \in ContextsFrom(view.folderValue)
    /\ \A i \in 1..Len(ListedNames) :
         \E d \in DocsOf(view.folderValue) : d.name = ListedNames[i]

(***************************************************************************)
(* C13.  When loadContextFromFolder ends, the "Stopped adding files"       *)
(* notice was shown if and only if at least one Markdown document of the   *)
(* folder it was called for is not in the context, and the context-source  *)
(* list then displayed names exactly the documents that are in it.         *)
(***************************************************************************)
\* the documents the displayed list names: the items of the list, or the one
\* document of "Context: <name> (active)"
DisplayedNames ==
  IF view.filesList.kind = "list" THEN view.filesList.names
  ELSE IF view.filesList.kind = "active" THEN << view.filesList.arg >>
  ELSE <<>>

StoppedNoticeShown ==
  \E i \in 1..Len(ev.notices) : ev.notices[i] = "Stopped adding files"

\* how many documents of the folder, in name order, the context holds
InContext(docs) ==
  CHOOSE k \in 0..Len(docs) : Context = Joined(SubSeq(docs, 1, k))

C13_NoticeIffDropped ==
  LoadEnded =>
    LET docs == InNameOrder(ev.arg)
    IN /\ \E k \in 0..Len(docs) : Context = Joined(SubSeq(docs, 1, k))
       /\ StoppedNoticeShown <=> InContext(docs) < Len(docs)

C13_NoticeAndListMatchContext ==
  /\ C13_NoticeIffDropped
  /\ LoadEnded =>
       DisplayedNames = NamesOf(SubSeq(InNameOrder(ev.arg), 1,
                                       InContext(InNameOrder(ev.arg))))

(***************************************************************************)
(* C21.  The token line and the submit check agree: at a submit of a       *)
(* prompt that is not blank, made while the token line shows the estimates *)
(* of the context and the prompt as they are, the line is in the error     *)
(* colour exactly when the submit is rejected for exceeding the token      *)
(* limit.                                                                  *)
(***************************************************************************)
\* the token line shows the estimates of the present context and prompt
TokenLineUpToDate ==
  /\ view.tokenWarning.kind = "summary"
  /\ view.tokenWarning.context = TokenEstimate(Context)
  /\ view.tokenWarning.prompt = TokenEstimate(view.promptValue)

ErrorColour == view.tokenWarning.color = "error"

C21_DisplayAgreesWithSubmit ==
  [][ (/\ ev'.name = "Submit"
       /\ ~OnlyWhitespace(view.promptValue)
       /\ TokenLineUpToDate)
        => (ErrorColour <=> ev'.outcome = "limit") ]_vars

\* one half of it: a submit rejected for the limit was made under a line in
\* the error colour
C21_RejectedImpliesErrorColour ==
  [][ (/\ ev'.name = "Submit"
       /\ ~OnlyWhitespace(view.promptValue)
       /\ TokenLineUpToDate
       /\ ev'.outcome = "limit") => ErrorColour ]_vars

(***************************************************************************)
(* C22.  Once the view has finished opening and no handler is suspended,   *)
(* the conversation entries in the response area are the entries of        *)
(* chatHistory, each once and in the order of the history.  Stated for the *)
(* behaviours in which no save of the settings failed.                     *)
(***************************************************************************)
\* the conversation entries the response area shows, in its order
RenderedEntries ==
  LET els == SelectSeq(view.responseEls, LAMBDA el : el.type = "entry")
  IN [i \in 1..Len(els) |-> [userPrompt |-> els[i].prompt,
                             aiResponse |-> els[i].reply]]

SaveFailedShown ==
  \E i \in 1..Len(view.responseEls) :
    view.responseEls[i].type = "error" /\ view.responseEls[i].message = "save failed"

Quiescent == view.opened /\ view.leafRegistered /\ tasks = EmptyBag

C22_HistoryRenderedOnce ==
  (Quiescent /\ ~SaveFailedShown) => RenderedEntries = History

(***************************************************************************)
(* C23.  A panel submit that is rejected before any network call, for a    *)
(* blank prompt or for the token limit, leaves the response area as it was *)
(* before the submit: the welcome message, or the rendered entries, are    *)
(* the same elements after the rejection, and no "Thinking..." element is  *)
(* left.                                                                   *)
(***************************************************************************)
C23_RejectionKeepsResponseArea ==
  [][ (/\ ev'.name = "Submit"
       /\ \/ OnlyWhitespace(view.promptValue)
          \/ TokenEstimate(view.currentContextContent \o view.promptValue) > Ceiling)
        => view'.responseEls = view.responseEls ]_vars
====
